---- MODULE Spec2Model ----
(***************************************************************************)
(* Model of src/server.py: the StockAnalysisServer adapter.                *)
(*                                                                         *)
(* Strings are sequences of tokens (single characters for ticker symbols,  *)
(* whole literals for the fixed parts of f-strings), so that formatting    *)
(* and upper-casing are computed and not assumed.                          *)
(***************************************************************************)
EXTENDS Integers, Sequences, FiniteSets, TLC

VARIABLES
    cache,      \* the lru_cache of get_ticker_data: entries, least recently used first
    useOrder,   \* history: every key ever passed to get_ticker_data, by last use
    last        \* the last call made by the host: its argument, result and effects

vars == <<cache, useOrder, last>>

(***************************************************************************)
(* Program constants                                                       *)
(***************************************************************************)
maxsize == 128
SleepSecs == 1
n_results == 1

(***************************************************************************)
(* Bounds of the model                                                     *)
(***************************************************************************)
NumCauses == 2      \* distinct messages a provider exception may carry
MaxFree == 2        \* free slots of a pre-filled cache in SpecFetch
NumHot == 2         \* pre-filled keys the host may ask for again in SpecFetch

(***************************************************************************)
(* Strings                                                                 *)
(***************************************************************************)
UpperChar(ch) ==
    CASE ch = "a" -> "A"
      [] ch = "b" -> "B"
      [] ch = "c" -> "C"
      [] OTHER -> ch

upper(s) == [i \in 1..Len(s) |-> UpperChar(s[i])]

Digit == <<"0", "1", "2", "3", "4", "5", "6", "7", "8", "9">>

\* a pre-filled key: "F" followed by the three decimal digits of i
Filler(i) == <<"F", Digit[(i \div 100) + 1], Digit[((i \div 10) % 10) + 1], Digit[(i % 10) + 1]>>

\* ticker strings the host passes
Tickers == { <<"a", "b">>, <<"A", "B">> }

CauseText == <<"E1", "E2", "E3", "E4">>
Causes == { <<CauseText[n]>> : n \in 1..NumCauses }

(***************************************************************************)
(* Values                                                                  *)
(***************************************************************************)
None == <<"None">>
TickerObj(sym) == <<"yf.Ticker">> \o sym

\* one call to a library outside the program: att is the run of the tool it
\* belongs to, n the n_results of a query (0 elsewhere)
Ext(att, api, arg, n, res, cause) ==
    [att |-> att, api |-> api, arg |-> arg, n |-> n, res |-> res, cause |-> cause]

Ok(v) == [exc |-> FALSE, val |-> v, cause |-> <<>>]
Exc(cause) == [exc |-> TRUE, val |-> <<>>, cause |-> cause]

(***************************************************************************)
(* functools.lru_cache(maxsize=128) around get_ticker_data                 *)
(***************************************************************************)
Keys(c) == { c[i].key : i \in DOMAIN c }

Index(c, k) == CHOOSE i \in DOMAIN c : c[i].key = k

Remove(c, i) == SubSeq(c, 1, i - 1) \o SubSeq(c, i + 1, Len(c))

Touch(u, k) == SelectSeq(u, LAMBDA x : x # k) \o <<k>>

\* the body without its try/except
get_ticker_data_body_unguarded(ticker, fetchOK) ==
    IF fetchOK THEN Ok(TickerObj(upper(ticker))) ELSE Exc(<<"provider">>)

\* lines 82-90: the body, run on a miss only; the try/except turns a
\* provider failure into None
get_ticker_data_body(ticker, fetchOK) ==
    LET sym == upper(ticker)
    IN  IF fetchOK THEN Ok(TickerObj(sym)) ELSE Ok(None)

\* CacheHit that leaves the entry where it is (first in, first out)
CacheHit_fifo(c, ticker) ==
    [cache |-> c, out |-> Ok(c[Index(c, ticker)].val), ext |-> <<>>]

CacheHit(c, ticker) ==
    LET i == Index(c, ticker)
    IN  [cache |-> Remove(c, i) \o <<c[i]>>, out |-> Ok(c[i].val), ext |-> <<>>]

\* CacheMiss that does not store None
CacheMiss_skipNone(c, ticker, fetchOK, att) ==
    LET b == get_ticker_data_body(ticker, fetchOK)
        kept == IF Len(c) >= maxsize THEN Tail(c) ELSE c
    IN  [cache |-> IF b.exc \/ b.val = None THEN c ELSE kept \o <<[key |-> ticker, val |-> b.val]>>,
         out |-> b,
         ext |-> <<Ext(att, "yf.Ticker", upper(ticker), 0,
                       IF fetchOK THEN "ok" ELSE "raise", <<>>)>>]

\* a miss runs the body, then stores what it returned (an exception is not stored)
CacheMiss(c, ticker, fetchOK, att) ==
    LET b == get_ticker_data_body(ticker, fetchOK)
        kept == IF Len(c) >= maxsize THEN Tail(c) ELSE c
    IN  [cache |-> IF b.exc THEN c ELSE kept \o <<[key |-> ticker, val |-> b.val]>>,
         out |-> b,
         ext |-> <<Ext(att, "yf.Ticker", upper(ticker), 0,
                       IF fetchOK THEN "ok" ELSE "raise", <<>>)>>]

get_ticker_data(c, ticker, fetchOK, att) ==
    IF ticker \in Keys(c) THEN CacheHit(c, ticker)
    ELSE CacheMiss(c, ticker, fetchOK, att)

\* the provider is asked only on a miss
FetchOutcomes(c, ticker) == IF ticker \in Keys(c) THEN {TRUE} ELSE BOOLEAN

Call(op, arg, ret, raised, trace, ext) ==
    [op |-> op, arg |-> arg, ret |-> ret, raised |-> raised,
     trace |-> trace, slept |-> SleepSecs * Cardinality({i \in DOMAIN trace : trace[i] = "sleep"}),
     ext |-> ext]

NoCall == Call("none", <<>>, <<>>, FALSE, <<>>, <<>>)

GetTickerData(ticker) ==
    \E fetchOK \in FetchOutcomes(cache, ticker) :
        LET g == get_ticker_data(cache, ticker, fetchOK, 1)
        IN  /\ cache' = g.cache
            /\ useOrder' = Touch(useOrder, ticker)
            /\ last' = Call("get_ticker_data", ticker, g.out.val, g.out.exc, <<>>, g.ext)

(***************************************************************************)
(* SpecFetch: get_ticker_data alone, from caches earlier calls have filled *)
(***************************************************************************)
Entry(k, ok) == [key |-> k, val |-> get_ticker_data_body(k, ok).val]

Fill(n) == [i \in 1..n |-> Entry(Filler(i), i % 3 # 0)]

FetchTickers == Tickers \cup { Filler(i) : i \in 1..NumHot }

Fronts == { <<>> } \cup { <<Entry(t, ok)>> : t \in Tickers, ok \in BOOLEAN }

InitFetch ==
    /\ \E f \in Fronts : \E free \in 0..MaxFree :
          cache = f \o Fill(maxsize - Len(f) - free)
    /\ useOrder = [i \in DOMAIN cache |-> cache[i].key]
    /\ last = NoCall

NextFetch == \E t \in FetchTickers : GetTickerData(t)

SpecFetch == InitFetch /\ [][NextFetch]_vars

(***************************************************************************)
(* Provider reads on a fetched record                                      *)
(***************************************************************************)
\* lines 146-148 and 157-159: the allow-list, in the order the code lists it
AllowList == <<"shortName", "longName", "sector", "industry", "website", "market",
               "marketCap", "country", "city", "state", "zip", "phone">>

\* keys a provider profile may hold in the model (allow-listed and not)
ProfileKeys == <<"shortName", "phone", "address1">>

Elems(s) == { s[i] : i \in DOMAIN s }

Raise(cause) == [res |-> "raise", val |-> <<>>, cause |-> cause]
Value(v) == [res |-> "ok", val |-> v, cause |-> <<>>]
NoValue == [res |-> "none", val |-> <<>>, cause |-> <<>>]

\* dat.history(period='1mo')['Close'] and dat.quarterly_income_stmt
TableReads == { Raise(c) : c \in Causes } \cup { Value(<<"table">>) }

\* dat.info: raises, is None, or is a dict (its keys, in the provider's order)
InfoReads ==
    { Raise(c) : c \in Causes } \cup { NoValue }
    \cup { Value(SelectSeq(ProfileKeys, LAMBDA k : k \in ks)) : ks \in SUBSET Elems(ProfileKeys) }

Reads(api) == IF api = "info" THEN InfoReads ELSE TableReads

AttributeError(attr) == <<"'NoneType' object has no attribute '", attr, "'">>
TypeErrorNotIterable == <<"argument of type 'NoneType' is not iterable">>
ValueErrorNoInfo(ticker) == <<"No information found for ticker ">> \o ticker

\* json.dumps(relevant_info, indent=2): the keys of the dict, in order
json_dumps(keys) == <<"{">> \o keys \o <<"}">>

\* relevant_info without the allow-list
relevant_info_unfiltered(info) == info

\* lines 146-149: {k: dat.info.get(k) for k in [...] if k in dat.info}
relevant_info(info) == SelectSeq(AllowList, LAMBDA k : k \in Elems(info))

\* what the statements after get_ticker_data do with dat and the provider's answer
\* checked: the first attempt of stock_info tests `not dat.info` (line 142)
Format(api, ticker, got, rd, checked) ==
    IF got.exc THEN got
    ELSE IF got.val = None THEN Exc(AttributeError(api))
    ELSE IF rd.res = "raise" THEN Exc(rd.cause)
    ELSE IF api # "info" THEN Ok(rd.val)
    ELSE IF checked /\ (rd.res = "none" \/ rd.val = <<>>) THEN Exc(ValueErrorNoInfo(ticker))
    ELSE IF rd.res = "none" THEN Exc(TypeErrorNotIterable)
    ELSE Ok(json_dumps(relevant_info(rd.val)))

\* one run of the fetch-and-format sequence, given what get_ticker_data returned
Attempt(g, api, ticker, rd, att, checked) ==
    [cache |-> g.cache, out |-> Format(api, ticker, g.out, rd, checked),
     ext |-> g.ext \o (IF g.out.exc \/ g.out.val = None THEN <<>>
                       ELSE <<Ext(att, api, rd.val, 0, rd.res, rd.cause)>>)]

\* the provider is read only through a record
ReadOutcomes(g, api) == IF g.out.exc \/ g.out.val = None THEN {NoValue} ELSE Reads(api)

SuccessPrefix(api) ==
    CASE api = "history" -> "Stock price over the last month for "
      [] api = "info" -> "Background information for "
      [] OTHER -> "Income statement for "

ErrorPrefix(api) ==
    CASE api = "history" -> "Error retrieving stock price for "
      [] api = "info" -> "Error retrieving stock info for "
      [] OTHER -> "Error retrieving income statement for "

SuccessString(api, ticker, body) == <<SuccessPrefix(api)>> \o ticker \o <<": ">> \o body
\* ErrorString reporting the normalised symbol instead of the caller's text
ErrorString_upper(api, ticker, cause) == <<ErrorPrefix(api)>> \o upper(ticker) \o <<": ">> \o cause

ErrorString(api, ticker, cause) == <<ErrorPrefix(api)>> \o ticker \o <<": ">> \o cause

Returned(c, s, trace, ext) == [cache |-> c, ret |-> s, raised |-> FALSE, trace |-> trace, ext |-> ext]

\* Retry without the inner try: the second failure leaves the tool
Retry_unguarded(a2, api, ticker, ext1) ==
    IF ~a2.out.exc
    THEN Returned(a2.cache, SuccessString(api, ticker, a2.out.val),
                  <<"try", "except", "sleep", "try", "return">>, ext1 \o a2.ext)
    ELSE [cache |-> a2.cache, ret |-> <<>>, raised |-> TRUE,
          trace |-> <<"try", "except", "sleep", "try">>, ext |-> ext1 \o a2.ext]

\* Retry that waits and runs once more after the second failure
Retry_again(a2, api, ticker, ext1) ==
    IF ~a2.out.exc
    THEN Returned(a2.cache, SuccessString(api, ticker, a2.out.val),
                  <<"try", "except", "sleep", "try", "return">>, ext1 \o a2.ext)
    ELSE Returned(a2.cache, ErrorString(api, ticker, a2.out.cause),
                  <<"try", "except", "sleep", "try", "except", "sleep", "try", "except", "return">>,
                  ext1 \o a2.ext \o a2.ext)

\* lines 117-123, 155-163, 186-190: the handler of the first failure
Retry(a2, api, ticker, ext1) ==
    IF ~a2.out.exc
    THEN Returned(a2.cache, SuccessString(api, ticker, a2.out.val),
                  <<"try", "except", "sleep", "try", "return">>, ext1 \o a2.ext)
    ELSE Returned(a2.cache, ErrorString(api, ticker, a2.out.cause),
                  <<"try", "except", "sleep", "try", "except", "return">>, ext1 \o a2.ext)

\* lines 105-113, 138-151, 180-182: the first run returns
FirstReturn(a1, api, ticker) ==
    Returned(a1.cache, SuccessString(api, ticker, a1.out.val), <<"try", "return">>, a1.ext)

OpName(api) ==
    CASE api = "history" -> "stock_price"
      [] api = "info" -> "stock_info"
      [] OTHER -> "income_statement"

Finish(r, api, ticker) ==
    /\ cache' = r.cache
    /\ useOrder' = Touch(useOrder, ticker)
    /\ last' = Call(OpName(api), ticker, r.ret, r.raised, r.trace, r.ext)

Tool(api, ticker) ==
    \E f1 \in FetchOutcomes(cache, ticker) :
        LET g1 == get_ticker_data(cache, ticker, f1, 1)
        IN  \E r1 \in ReadOutcomes(g1, api) :
            LET a1 == Attempt(g1, api, ticker, r1, 1, api = "info")
            IN  IF ~a1.out.exc
                THEN Finish(FirstReturn(a1, api, ticker), api, ticker)
                ELSE \E f2 \in FetchOutcomes(a1.cache, ticker) :
                        LET g2 == get_ticker_data(a1.cache, ticker, f2, 2)
                        IN  \E r2 \in ReadOutcomes(g2, api) :
                                Finish(Retry(Attempt(g2, api, ticker, r2, 2, FALSE),
                                             api, ticker, a1.ext),
                                       api, ticker)

stock_price(ticker) == Tool("history", ticker)
stock_info(ticker) == Tool("info", ticker)
income_statement(ticker) == Tool("quarterly_income_stmt", ticker)

(***************************************************************************)
(* The ticker search resource                                              *)
(***************************************************************************)
StockNames == { <<"Google">>, <<"Bank of America">>, <<>> }

OpenOutcomes == { Raise(c) : c \in Causes } \cup { Value(<<"collection">>) }
QueryOutcomes == { Raise(c) : c \in Causes } \cup { Value(<<"'ids': ...">>), Value(<<>>) }

\* str() of the dict a query returns
str(results) == <<"{">> \o results \o <<"}">>

\* lines 40-46
get_chroma_collection(open) ==
    [ret |-> IF open.res = "ok" THEN open.val ELSE None,
     ext |-> <<Ext(1, "get_collection", <<"stock_tickers">>, 0, open.res, open.cause)>>]

\* list_tickers_body without the `if not collection` test: None.query raises
list_tickers_body_unchecked(stock_name, open, query) ==
    LET g == get_chroma_collection(open)
        q == Ext(1, "query", stock_name, n_results, query.res, query.cause)
    IN  IF g.ret = None
        THEN [ret |-> <<"Error searching for ticker: ", "'NoneType' object has no attribute 'query'">>,
              raised |-> FALSE, ext |-> g.ext]
        ELSE IF query.res = "raise"
        THEN [ret |-> <<"Error searching for ticker: ">> \o query.cause, raised |-> FALSE,
              ext |-> g.ext \o <<q>>]
        ELSE [ret |-> str(query.val), raised |-> FALSE, ext |-> g.ext \o <<q>>]

\* lines 63-71
list_tickers_body(stock_name, open, query) ==
    LET g == get_chroma_collection(open)
        q == Ext(1, "query", stock_name, n_results, query.res, query.cause)
    IN  IF g.ret = None
        THEN [ret |-> <<"Error: Unable to connect to ticker database">>, raised |-> FALSE,
              ext |-> g.ext]
        ELSE IF query.res = "raise"
        THEN [ret |-> <<"Error searching for ticker: ">> \o query.cause, raised |-> FALSE,
              ext |-> g.ext \o <<q>>]
        ELSE [ret |-> str(query.val), raised |-> FALSE, ext |-> g.ext \o <<q>>]

list_tickers(stock_name) ==
    \E open \in OpenOutcomes :
    \E query \in (IF open.res = "ok" THEN QueryOutcomes ELSE {NoValue}) :
        LET r == list_tickers_body(stock_name, open, query)
        IN  /\ last' = Call("list_tickers", stock_name, r.ret, r.raised, <<>>, r.ext)
            /\ UNCHANGED <<cache, useOrder>>

(***************************************************************************)
(* Spec: the host calls the tools and the resource, one call at a time     *)
(***************************************************************************)
Init ==
    /\ cache = <<>>
    /\ useOrder = <<>>
    /\ last = NoCall

Next ==
    \/ \E t \in Tickers : stock_price(t)
    \/ \E t \in Tickers : stock_info(t)
    \/ \E t \in Tickers : income_statement(t)
    \/ \E t \in Tickers : GetTickerData(t)
    \/ \E n \in StockNames : list_tickers(n)

Spec == Init /\ [][Next]_vars

(***************************************************************************)
(* Reading the record of the last call                                     *)
(***************************************************************************)
ToolOps == {"stock_price", "stock_info", "income_statement"}

StartsWith(s, p) == Len(s) >= Len(p) /\ SubSeq(s, 1, Len(p)) = p

Count(s, x) == Cardinality({ i \in DOMAIN s : s[i] = x })

ErrorLead(op) ==
    CASE op = "stock_price" -> "Error retrieving stock price for "
      [] op = "stock_info" -> "Error retrieving stock info for "
      [] OTHER -> "Error retrieving income statement for "

SuccessLead(op) ==
    CASE op = "stock_price" -> "Stock price over the last month for "
      [] op = "stock_info" -> "Background information for "
      [] OTHER -> "Income statement for "

AttrOf(op) ==
    CASE op = "stock_price" -> "history"
      [] op = "stock_info" -> "info"
      [] OTHER -> "quarterly_income_stmt"

IsErrorString(c) == StartsWith(c.ret, <<ErrorLead(c.op)>> \o c.arg \o <<": ">>)
IsSuccessString(c) == StartsWith(c.ret, <<SuccessLead(c.op)>> \o c.arg \o <<": ">>)

\* the provider reads and fetches of run i of the call
ReadsOf(c, i) == { j \in DOMAIN c.ext : c.ext[j].att = i /\ c.ext[j].api = AttrOf(c.op) }
FetchesOf(c) == { j \in DOMAIN c.ext : c.ext[j].api = "yf.Ticker" }

\* run i got no data from the provider: the fetch failed (now or memoised) or the read failed
ProviderFailed(c, i) == \A j \in ReadsOf(c, i) : c.ext[j].res # "ok"

\* run i of stock_info read an empty profile
EmptyProfile(c, i) == \E j \in ReadsOf(c, i) : c.ext[j].res = "ok" /\ c.ext[j].arg = <<>>

\* the first run failed: no data, or (stock_info) a profile with nothing in it
FirstRunFailed(c) == ProviderFailed(c, 1) \/ (c.op = "stock_info" /\ EmptyProfile(c, 1))

\* the message of the exception that ends a second run with no data
SecondCause(c) ==
    IF ReadsOf(c, 2) = {} THEN <<"'NoneType' object has no attribute '", AttrOf(c.op), "'">>
    ELSE LET e == c.ext[CHOOSE j \in ReadsOf(c, 2) : TRUE]
         IN  IF e.res = "raise" THEN e.cause
             ELSE <<"argument of type 'NoneType' is not iterable">>

CachedNone(c, k) == \E i \in DOMAIN c : c[i].key = k /\ c[i].val = <<"None">>

Entries(c) == { c[i] : i \in DOMAIN c }

\* the least recently used key of the cache, by the history of uses
LRUKey(c, u) ==
    u[CHOOSE i \in DOMAIN u : u[i] \in Keys(c) /\ \A j \in 1..(i - 1) : u[j] \notin Keys(c)]

AllowedKeys == {"shortName", "longName", "sector", "industry", "website", "market",
                "marketCap", "country", "city", "state", "zip", "phone"}

\* the keys of the structure a stock_info success serialises
JsonKeys(c) == SubSeq(c.ret, Len(c.arg) + 4, Len(c.ret) - 1)

(***************************************************************************)
(* Claims                                                                  *)
(***************************************************************************)

\* C1: every call of stock_price, stock_info and income_statement, whatever the
\* ticker, the cache and the provider's answers on the first run and on the
\* retry, ends by returning a string (a formatted result or an error
\* description); no exception leaves the tool.
C1_ToolsAreTotal ==
    last.op \in ToolOps =>
        /\ ~last.raised
        /\ last.trace # <<>> /\ last.trace[Len(last.trace)] = "return"
        /\ (IsErrorString(last) \/ IsSuccessString(last))

C1_Witness ==
    /\ last.op \in ToolOps
    /\ Count(last.trace, "except") = 2
    /\ \E j \in ReadsOf(last, 2) : last.ext[j].res = "raise"
    /\ ~last.raised

\* C2: when the provider fails on the first run and again on the retry, the tool
\* returns "Error retrieving <what> for <ticker>: <cause>" with the ticker as the
\* caller passed it and the cause of the second failure, and never a success string.
C2_ErrorOnDoubleFailure ==
    (last.op \in ToolOps /\ ProviderFailed(last, 1) /\ ProviderFailed(last, 2)) =>
        /\ last.ret = <<ErrorLead(last.op)>> \o last.arg \o <<": ">> \o SecondCause(last)
        /\ ~IsSuccessString(last)

C2_Witness ==
    /\ last.op = "income_statement"
    /\ last.arg = <<"a", "b">>
    /\ \E j \in ReadsOf(last, 1) : last.ext[j].res = "raise" /\ last.ext[j].cause = <<"E1">>
    /\ \E j \in ReadsOf(last, 2) : last.ext[j].res = "raise" /\ last.ext[j].cause = <<"E2">>
    /\ last.ret = <<"Error retrieving income statement for ", "a", "b", ": ", "E2">>

\* C3: a tool call runs the fetch-and-format sequence once or twice; twice exactly
\* when the first run failed; the second run follows exactly one sleep of 1; a
\* call whose first run succeeds neither sleeps nor runs again; there is no third run.
C3_RetryPolicy ==
    last.op \in ToolOps =>
        LET runs == Count(last.trace, "try")
        IN  /\ runs \in {1, 2}
            /\ (runs = 2) <=> FirstRunFailed(last)
            /\ runs = 1 => /\ last.trace = <<"try", "return">>
                           /\ last.slept = 0
                           /\ \A j \in DOMAIN last.ext : last.ext[j].att = 1
            /\ runs = 2 => /\ SubSeq(last.trace, 1, 4) = <<"try", "except", "sleep", "try">>
                           /\ Count(last.trace, "sleep") = 1
                           /\ last.slept = 1

C3_Witness ==
    /\ last.op = "stock_price"
    /\ Count(last.trace, "try") = 2
    /\ last.slept = 1
    /\ IsSuccessString(last)

\* C4: two consecutive get_ticker_data calls whose tickers are equal after
\* upper-casing: the second returns the record the first returned and makes no
\* provider call.
C4_CaseInsensitiveHit ==
    [][ (/\ last.op = "get_ticker_data"
         /\ last'.op = "get_ticker_data"
         /\ upper(last.arg) = upper(last'.arg))
        => (last'.ext = <<>> /\ last'.ret = last.ret) ]_vars

\* C5: the cache never holds more than 128 entries; a call with a key that is not
\* cached, made when the cache is full, removes exactly the least recently used
\* entry (hits count as uses) and adds the new one; no other call removes an entry.
C5_LruEviction ==
    [][ LET k == last'.arg
            evicts == k \notin Keys(cache) /\ Len(cache) = maxsize
            lru == LRUKey(cache, useOrder)
        IN  /\ Len(cache) <= maxsize /\ Len(cache') <= maxsize
            /\ evicts => /\ Keys(cache') = (Keys(cache) \ {lru}) \cup {k}
                         /\ Entries(cache) \ Entries(cache') = {cache[Index(cache, lru)]}
            /\ ~evicts => Entries(cache) \subseteq Entries(cache') ]_vars

C5_Witness ==
    /\ Len(cache) = maxsize
    /\ last.op = "get_ticker_data" /\ last.ext # <<>>
    /\ Filler(1) \in Keys(cache)
    /\ Filler(2) \notin Keys(cache)

\* C6: a stock_info call that reads an empty profile on the first run and again on
\* the retry returns "Error retrieving stock info for <ticker>: ..." and never
\* "Background information for <ticker>: ...".
C6_EmptyProfileIsFailure ==
    (last.op = "stock_info" /\ EmptyProfile(last, 1) /\ EmptyProfile(last, 2)) =>
        (IsErrorString(last) /\ ~IsSuccessString(last))

C9_FetchNeverRaises ==
    last.op = "get_ticker_data" =>
        /\ ~last.raised
        /\ \A j \in DOMAIN last.ext :
              /\ last.ext[j].api = "yf.Ticker" /\ last.ext[j].arg = upper(last.arg)
              /\ last.ext[j].res = "raise" => last.ret = <<"None">>
              /\ last.ext[j].res = "ok" => last.ret = <<"yf.Ticker">> \o upper(last.arg)

C9_Witness ==
    /\ last.op = "get_ticker_data" /\ last.arg = <<"a", "b">>
    /\ Len(last.ext) = 1 /\ last.ext[1].res = "raise" /\ last.ext[1].arg = <<"A", "B">>
    /\ last.ret = <<"None">>

\* C10: a failed fetch is memoised. While a key is cached with None, a call with
\* that key asks the provider nothing and returns None (get_ticker_data) or an
\* error string (the tools); and a tool call whose fetch fails makes that one
\* fetch only, its retry none, and returns an error string.
C10_FailureIsMemoised ==
    [][ /\ (last'.op \in ToolOps \cup {"get_ticker_data"} /\ CachedNone(cache, last'.arg)) =>
              /\ last'.ext = <<>>
              /\ CachedNone(cache', last'.arg)
              /\ last'.op = "get_ticker_data" => last'.ret = <<"None">>
              /\ last'.op \in ToolOps => IsErrorString(last')
        /\ (last'.op \in ToolOps /\ \E j \in FetchesOf(last') : last'.ext[j].res = "raise") =>
              /\ Cardinality(FetchesOf(last')) = 1
              /\ ReadsOf(last', 1) = {} /\ ReadsOf(last', 2) = {}
              /\ Count(last'.trace, "try") = 2
              /\ IsErrorString(last') ]_vars

C10_Witness ==
    /\ last.op = "stock_price"
    /\ last.ext = <<>>
    /\ CachedNone(cache, last.arg)
    /\ IsErrorString(last)

====
